---- MODULE Spec2Model ----
(***************************************************************************)
(* Model of batch_process.py: process_images() enumerates the images of    *)
(* an input folder, runs the external upscaler once per image, renames the *)
(* newest PNG of the output folder to frame_NNN.png and finally runs the   *)
(* encoder (ffmpeg) over the frames.                                       *)
(*                                                                         *)
(* File names are sequences of one-character strings, compared by code     *)
(* point as Python compares str.  The two child programs and the file      *)
(* system are the environment: their exit codes, what the upscaler leaves  *)
(* in the output folder and what the folders hold at start are inputs.     *)
(* Arguments are taken inside their documented domain (framerate > 0), and *)
(* os.rename has its POSIX meaning (an existing target is replaced).       *)
(***************************************************************************)
EXTENDS Integers, Sequences, FiniteSets, TLC

\* Largest number of entries of the input folder.
MaxEntries == 3

VARIABLES
    pc,           \* position of process_images
    err,          \* the exception that ended the run, or "none"
    sys_bound,    \* is the global name sys bound (script entry) or not (import)
    input_ok,     \* os.listdir(input_folder) succeeds
    output_ok,    \* os.makedirs(output_folder, exist_ok=True) succeeds
    input_dir,    \* entries of the input folder
    outdir,       \* files of the output folder: [name, mtime, src]
    outdir0,      \* the output folder as it was when the run started
    clock,        \* file-system time
    files,        \* the local variable files
    idx,          \* the loop variable idx
    running,      \* child processes alive
    invoked,      \* history: file names the upscaler was started on
    upExits,      \* history: exit codes of the upscaler children
    deposits,     \* history: number of PNGs each upscaler child left
    renamed,      \* history: the renames performed
    encoderCalls, \* history: number of os.system(ffmpeg) calls
    encExits,     \* history: exit codes of the encoder children
    reported,     \* "Video saved to ..." was printed
    noImages      \* "No images found ..." was printed

vars == <<pc, err, sys_bound, input_ok, output_ok, input_dir, outdir, outdir0,
          clock, files, idx, running, invoked, upExits, deposits, renamed,
          encoderCalls, encExits, reported, noImages>>

----------------------------------------------------------------------------
\* Characters, in code-point order ('.' < digits < upper case < '_' < lower case).

Chars ==
    <<".", "0", "1", "2", "3", "4", "5", "6", "7", "8", "9",
      "A", "B", "C", "D", "E", "F", "G", "H", "I", "J", "K", "L", "M",
      "N", "O", "P", "Q", "R", "S", "T", "U", "V", "W", "X", "Y", "Z",
      "_",
      "a", "b", "c", "d", "e", "f", "g", "h", "i", "j", "k", "l", "m",
      "n", "o", "p", "q", "r", "s", "t", "u", "v", "w", "x", "y", "z">>

Ord(c) == CHOOSE i \in 1..Len(Chars) : Chars[i] = c

IsUpper(c) == Ord(c) >= Ord("A") /\ Ord(c) <= Ord("Z")

\* str.lower() on one character, then on a string.
LowerChar(c) == IF IsUpper(c) THEN Chars[Ord(c) - Ord("A") + Ord("a")] ELSE c

Lower(s) == [i \in 1..Len(s) |-> LowerChar(s[i])]

\* s < t as Python orders str: by the first differing code point, a proper
\* prefix first.
StrLess(s, t) ==
    \E i \in 1..(Len(t)) :
        /\ i <= Len(s) + 1
        /\ \A j \in 1..(i - 1) : s[j] = t[j]
        /\ \/ i = Len(s) + 1
           \/ i <= Len(s) /\ Ord(s[i]) < Ord(t[i])

\* os.path.splitext(f)[1]: from the last dot on, unless only dots precede it.
SplitExt(f) ==
    LET dots == {i \in 1..Len(f) : f[i] = "."}
    IN  IF dots = {} THEN <<>>
        ELSE LET d == CHOOSE i \in dots : \A j \in dots : j <= i
             IN  IF \E j \in 1..(d - 1) : f[j] # "."
                 THEN SubSeq(f, d, Len(f))
                 ELSE <<>>

extensions ==
    { <<".", "p", "n", "g">>, <<".", "j", "p", "g">>, <<".", "j", "p", "e", "g">>,
      <<".", "b", "m", "p">>, <<".", "t", "i", "f">>, <<".", "t", "i", "f", "f">> }

\* The filter of the list comprehension.
IsImage(f) == Lower(SplitExt(f)) \in extensions

\* str.endswith
EndsWith(s, suf) ==
    /\ Len(s) >= Len(suf)
    /\ SubSeq(s, Len(s) - Len(suf) + 1, Len(s)) = suf

\* fn.lower().endswith(".png")
IsPng(fn) == EndsWith(Lower(fn), <<".", "p", "n", "g">>)

\* sorted(list) of distinct str: insertion into the sorted prefix.
RECURSIVE InsertSorted(_, _)
InsertSorted(x, s) ==
    IF s = <<>> THEN <<x>>
    ELSE IF StrLess(x, Head(s)) THEN <<x>> \o s
    ELSE <<Head(s)>> \o InsertSorted(x, Tail(s))

\* The list left in listing order.
Unsorted(s) == s

RECURSIVE SortList(_)
SortList(s) ==
    IF s = <<>> THEN <<>>
    ELSE InsertSorted(s[Len(s)], SortList(SubSeq(s, 1, Len(s) - 1)))

\* [f for f in listing if ...]
RECURSIVE FilterImages(_)
FilterImages(s) ==
    IF s = <<>> THEN <<>>
    ELSE IF IsImage(Head(s)) THEN <<Head(s)>> \o FilterImages(Tail(s))
    ELSE FilterImages(Tail(s))

\* files = sorted([f for f in os.listdir(input_folder) if ...])
GatherFiles(listing) == SortList(FilterImages(listing))

Digit(n) == Chars[Ord("0") + n]

\* f"{idx:03d}" for idx < 1000
Fmt03(n) == <<Digit((n \div 100) % 10), Digit((n \div 10) % 10), Digit(n % 10)>>

\* frame_name = f"frame_{idx:03d}.png"
FrameName(i) == <<"f", "r", "a", "m", "e", "_">> \o Fmt03(i) \o <<".", "p", "n", "g">>

\* "output_video.mp4"
VideoName ==
    <<"o", "u", "t", "p", "u", "t", "_", "v", "i", "d", "e", "o", ".", "m", "p", "4">>

----------------------------------------------------------------------------
\* The environment.

\* Names an input folder may hold.
InputNames ==
    { <<"a", ".", "p", "n", "g">>, <<"b", ".", "j", "p", "g">>,
      <<"c", ".", "b", "m", "p">>, <<"B", ".", "P", "N", "G">>,
      <<"a", ".", "t", "i", "f", "f">>,
      <<"d", ".", "t", "x", "t">>, <<".", "p", "n", "g">> }

\* A modification time later than any the run itself produces.
Future == MaxEntries + 2

\* Files an output folder may hold before the run: an old PNG, a PNG dated
\* in the future, a frame of an earlier run, and a file that is no PNG.
PreFiles ==
    { [name |-> <<"o", "l", "d", ".", "p", "n", "g">>, mtime |-> 0, src |-> 0],
      [name |-> <<"X", ".", "P", "N", "G">>, mtime |-> Future, src |-> 0],
      [name |-> FrameName(2), mtime |-> 0, src |-> 0],
      [name |-> <<"n", ".", "t", "x", "t">>, mtime |-> Future, src |-> 0] }

\* The timestamped name the upscaler gives the output of its i-th run.
DepositName(i) == <<"u", "p", Digit(i), ".", "p", "n", "g">>

\* The orders in which os.listdir may return the entries of a folder.
Listings(S) ==
    { s \in [1..Cardinality(S) -> S] : \A i, j \in 1..Cardinality(S) : s[i] = s[j] => i = j }

Names(d) == {f.name : f \in d}

\* [fn for fn in os.listdir(output_folder) if fn.lower().endswith(".png")]
Pngs(d) == {f \in d : IsPng(f.name)}

\* sorted(..., key=getmtime)[-1]: a PNG no other PNG is newer than (among
\* equal times the listing order decides, so any of them).
Newest(d) == {f \in Pngs(d) : \A g \in Pngs(d) : g.mtime <= f.mtime}

\* os.rename(generated, frame_name) in the folder d
RenameIn(d, g, newname) ==
    {f \in d : f.name # g.name /\ f.name # newname}
        \cup {[name |-> newname, mtime |-> g.mtime, src |-> g.src]}

----------------------------------------------------------------------------
Init ==
    /\ pc = "start"
    /\ err = "none"
    /\ sys_bound \in BOOLEAN
    /\ input_ok \in BOOLEAN
    /\ output_ok \in BOOLEAN
    /\ input_dir \in {S \in SUBSET InputNames : Cardinality(S) <= MaxEntries}
    /\ outdir \in SUBSET PreFiles
    /\ outdir0 = outdir
    /\ clock = 1
    /\ files = <<>>
    /\ idx = 0
    /\ running = {}
    /\ invoked = <<>>
    /\ upExits = <<>>
    /\ deposits = <<>>
    /\ renamed = <<>>
    /\ encoderCalls = 0
    /\ encExits = <<>>
    /\ reported = FALSE
    /\ noImages = FALSE

\* An exception leaves process_images.
Raise(e) == pc' = "error" /\ err' = e

\* os.makedirs(output_folder, exist_ok=True)
Prepare ==
    /\ pc = "start"
    /\ IF output_ok
       THEN pc' = "enumerating" /\ err' = err
       ELSE Raise("OSError")
    /\ UNCHANGED <<sys_bound, input_ok, output_ok, input_dir, outdir, outdir0, clock,
                   files, idx, running, invoked, upExits, deposits, renamed,
                   encoderCalls, encExits, reported, noImages>>

\* The emptiness test left out.
NeverNoFiles(fs) == FALSE

\* if not files:
NoFiles(fs) == fs = <<>>

\* A listing error swallowed: the folder read as empty.
GatherSwallowingError ==
    /\ pc = "enumerating"
    /\ \E listing \in (IF input_ok THEN Listings(input_dir) ELSE {<<>>}) :
         /\ files' = GatherFiles(listing)
         /\ err' = err
         /\ IF NoFiles(files')
            THEN pc' = "done" /\ noImages' = TRUE /\ idx' = idx
            ELSE pc' = "loop" /\ noImages' = noImages /\ idx' = 1
    /\ UNCHANGED <<sys_bound, input_ok, output_ok, input_dir, outdir, outdir0, clock,
                   running, invoked, upExits, deposits, renamed,
                   encoderCalls, encExits, reported>>

\* files = sorted([...]); if not files: print(...); return; then the for
\* loop is entered (a loop over no files falls through to the encoder).
Gather ==
    /\ pc = "enumerating"
    /\ IF ~input_ok
       THEN Raise("OSError") /\ UNCHANGED <<files, idx, noImages>>
       ELSE \E listing \in Listings(input_dir) :
              /\ files' = GatherFiles(listing)
              /\ err' = err
              /\ IF NoFiles(files')
                 THEN pc' = "done" /\ noImages' = TRUE /\ idx' = idx
                 ELSE /\ noImages' = noImages
                      /\ IF Len(files') >= 1
                         THEN pc' = "loop" /\ idx' = 1
                         ELSE pc' = "encode" /\ idx' = idx
    /\ UNCHANGED <<sys_bound, input_ok, output_ok, input_dir, outdir, outdir0, clock,
                   running, invoked, upExits, deposits, renamed,
                   encoderCalls, encExits, reported>>

\* The child started without waiting for it (Popen in place of run).
StartUpscalerNoWait ==
    /\ pc = "loop"
    /\ IF ~sys_bound
       THEN Raise("NameError") /\ UNCHANGED <<running, invoked, upExits, deposits>>
       ELSE /\ pc' = "rename"
            /\ err' = err
            /\ running' = running \cup {<<"upscaler", idx>>}
            /\ invoked' = Append(invoked, files[idx])
            /\ upExits' = Append(upExits, 0)
            /\ deposits' = Append(deposits, 0)
    /\ UNCHANGED <<sys_bound, input_ok, output_ok, input_dir, outdir, outdir0, clock,
                   files, idx, renamed,
                   encoderCalls, encExits, reported, noImages>>

\* One iteration up to subprocess.run: cmd is built (sys.executable is read)
\* and the child is started; process_images waits for it.
StartUpscaler ==
    /\ pc = "loop"
    /\ IF ~sys_bound
       THEN Raise("NameError") /\ UNCHANGED <<running, invoked>>
       ELSE /\ pc' = "waitUpscaler"
            /\ err' = err
            /\ running' = running \cup {<<"upscaler", idx>>}
            /\ invoked' = Append(invoked, files[idx])
    /\ UNCHANGED <<sys_bound, input_ok, output_ok, input_dir, outdir, outdir0, clock,
                   files, idx, upExits, deposits, renamed,
                   encoderCalls, encExits, reported, noImages>>

\* The exit code of the child not looked at (check=True left out).
UpscalerExitUnchecked ==
    /\ pc = "waitUpscaler"
    /\ \E rc \in {0, 1}, n \in {0, 1} :
         /\ outdir' = IF n = 1
                      THEN outdir \cup {[name |-> DepositName(idx), mtime |-> clock, src |-> idx]}
                      ELSE outdir
         /\ upExits' = Append(upExits, rc)
         /\ deposits' = Append(deposits, n)
         /\ pc' = "rename" /\ err' = err
    /\ clock' = clock + 1
    /\ running' = running \ {<<"upscaler", idx>>}
    /\ UNCHANGED <<sys_bound, input_ok, output_ok, input_dir, outdir0,
                   files, idx, invoked, renamed,
                   encoderCalls, encExits, reported, noImages>>

\* The upscaler child exits with code rc having left n new PNGs;
\* subprocess.run(cmd, check=True) returns or raises CalledProcessError.
UpscalerExit ==
    /\ pc = "waitUpscaler"
    /\ \E rc \in {0, 1}, n \in {0, 1} :
         /\ outdir' = IF n = 1
                      THEN outdir \cup {[name |-> DepositName(idx), mtime |-> clock, src |-> idx]}
                      ELSE outdir
         /\ upExits' = Append(upExits, rc)
         /\ deposits' = Append(deposits, n)
         /\ IF rc # 0
            THEN Raise("CalledProcessError")
            ELSE pc' = "rename" /\ err' = err
    /\ clock' = clock + 1
    /\ running' = running \ {<<"upscaler", idx>>}
    /\ UNCHANGED <<sys_bound, input_ok, output_ok, input_dir, outdir0,
                   files, idx, invoked, renamed,
                   encoderCalls, encExits, reported, noImages>>

\* The encoder step indented into the loop body: it follows every rename.
RenameThenEncode ==
    /\ pc = "rename"
    /\ IF Pngs(outdir) = {}
       THEN Raise("IndexError") /\ UNCHANGED <<outdir, renamed, idx>>
       ELSE \E g \in Newest(outdir) :
              /\ outdir' = RenameIn(outdir, g, FrameName(idx))
              /\ renamed' = Append(renamed, [idx |-> idx, from |-> g.name, src |-> g.src])
              /\ err' = err
              /\ pc' = "encode" /\ idx' = idx
    /\ UNCHANGED <<sys_bound, input_ok, output_ok, input_dir, outdir0, clock,
                   files, running, invoked, upExits, deposits,
                   encoderCalls, encExits, reported, noImages>>

\* generated = sorted(...)[-1]; os.rename(generated, frame_name); next idx
Rename ==
    /\ pc = "rename"
    /\ IF Pngs(outdir) = {}
       THEN Raise("IndexError") /\ UNCHANGED <<outdir, renamed, idx>>
       ELSE \E g \in Newest(outdir) :
              /\ outdir' = RenameIn(outdir, g, FrameName(idx))
              /\ renamed' = Append(renamed, [idx |-> idx, from |-> g.name, src |-> g.src])
              /\ err' = err
              /\ IF idx = Len(files)
                 THEN pc' = "encode" /\ idx' = idx
                 ELSE pc' = "loop" /\ idx' = idx + 1
    /\ UNCHANGED <<sys_bound, input_ok, output_ok, input_dir, outdir0, clock,
                   files, running, invoked, upExits, deposits,
                   encoderCalls, encExits, reported, noImages>>

\* print("Merging ..."); os.system(ffmpeg_cmd) starts the encoder and waits.
StartEncoder ==
    /\ pc = "encode"
    /\ pc' = "waitEncoder"
    /\ running' = running \cup {<<"encoder", 0>>}
    /\ encoderCalls' = encoderCalls + 1
    /\ UNCHANGED <<err, sys_bound, input_ok, output_ok, input_dir, outdir, outdir0, clock,
                   files, idx, invoked, upExits, deposits, renamed,
                   encExits, reported, noImages>>

\* The encoder child exits with code rc; os.system returns it, the value is
\* dropped, and "Video saved to" is printed.
EncoderExit ==
    /\ pc = "waitEncoder"
    /\ \E rc \in {0, 1} :
         /\ encExits' = Append(encExits, rc)
         /\ outdir' = IF rc = 0
                      THEN {f \in outdir : f.name # VideoName}
                             \cup {[name |-> VideoName, mtime |-> clock, src |-> -1]}
                      ELSE outdir
    /\ running' = running \ {<<"encoder", 0>>}
    /\ reported' = TRUE
    /\ pc' = "done"
    /\ UNCHANGED <<err, sys_bound, input_ok, output_ok, input_dir, outdir0, clock,
                   files, idx, invoked, upExits, deposits, renamed,
                   encoderCalls, noImages>>

Next ==
    \/ Prepare
    \/ Gather
    \/ StartUpscaler
    \/ UpscalerExit
    \/ Rename
    \/ StartEncoder
    \/ EncoderExit

Spec == Init /\ [][Next]_vars

----------------------------------------------------------------------------
\* Vocabulary of the properties.

Terminated == pc \in {"done", "error"}

\* The names of InputNames that are image files: extension png, jpg, jpeg,
\* bmp, tif or tiff in any letter case.
AllowedImages ==
    { <<"a", ".", "p", "n", "g">>, <<"b", ".", "j", "p", "g">>,
      <<"c", ".", "b", "m", "p">>, <<"B", ".", "P", "N", "G">>,
      <<"a", ".", "t", "i", "f", "f">> }

NumImages == Cardinality(input_dir \cap AllowedImages)

Range(s) == {s[i] : i \in 1..Len(s)}

AllZero(s) == \A i \in 1..Len(s) : s[i] = 0

\* Every upscaler run so far left exactly one new PNG.
OneDepositEach == \A i \in 1..Len(deposits) : deposits[i] = 1

\* The run made a video file.
VideoMade == \E f \in outdir : f.src = -1

\* The frame indices this run has created.
FramesCreated == {renamed[i].idx : i \in 1..Len(renamed)}

PhaseRank(p) ==
    CASE p = "start" -> 0
      [] p = "enumerating" -> 1
      [] p \in {"loop", "waitUpscaler", "rename"} -> 2
      [] p \in {"encode", "waitEncoder"} -> 3
      [] p \in {"done", "error"} -> 4

----------------------------------------------------------------------------
\* C1: when every upscaler run succeeded and left exactly one new PNG, a
\* completed run over N >= 1 images leaves frame_001.png .. frame_N.png, one
\* per image, without gaps.
C1_FramesContiguous ==
    (pc = "done" /\ files # <<>> /\ AllZero(upExits) /\ OneDepositEach)
        => /\ Len(files) = NumImages
           /\ \A i \in 1..Len(files) : FrameName(i) \in Names(outdir)

\* C2 as stated: with an input folder that holds no image file, the run
\* ends normally, without any child process, rename, frame or video.
C2_NoImagesReturnsNormally ==
    (input_ok /\ NumImages = 0 /\ Terminated)
        => /\ pc = "done" /\ err = "none"
           /\ invoked = <<>> /\ encoderCalls = 0 /\ renamed = <<>>
           /\ outdir = outdir0

\* C2, amended: the same, provided the output folder exists or can be
\* created; the run then reports "No images found" and prints no video path.
C2_NoImagesReturnsNormallyGivenOutput ==
    (output_ok /\ input_ok /\ NumImages = 0 /\ pc \notin {"start", "enumerating"})
        => /\ pc = "done" /\ err = "none" /\ noImages /\ ~reported
           /\ invoked = <<>> /\ encoderCalls = 0 /\ renamed = <<>> /\ running = {}
           /\ outdir = outdir0

\* C2: a run over a folder of two entries, none of them an image, has returned.
C2_Witness ==
    pc = "done" /\ noImages /\ Cardinality(input_dir) = 2

\* C3: once the upscaler run for image k has exited with failure, the run
\* is over with CalledProcessError: image k is not renamed, no image after k
\* is submitted, no frame k or later is created, the encoder is never
\* started and no video is made.
C3_UpscalerFailureAborts ==
    \A k \in 1..Len(upExits) :
        upExits[k] # 0
            => /\ pc = "error" /\ err = "CalledProcessError"
               /\ Len(invoked) = k
               /\ Len(renamed) = k - 1
               /\ \A i \in FramesCreated : i < k
               /\ encoderCalls = 0 /\ encExits = <<>>
               /\ ~VideoMade /\ ~reported

\* C3: the second of at least two images has failed after the first got its frame.
C3_Witness ==
    upExits = <<0, 1>> /\ pc = "error" /\ Len(renamed) = 1

\* C4 as stated: the encoder is started at most once; exactly once in a
\* finished run in which the upscaler ran for every image of a non-empty
\* list and succeeded; and only after the last rename, with a frame present.
C4_EncoderOnceWhenUpscalersSucceed ==
    /\ encoderCalls <= 1
    /\ (Terminated /\ files # <<>> /\ Len(upExits) = Len(files) /\ AllZero(upExits))
          => encoderCalls = 1
    /\ encoderCalls >= 1
          => /\ Len(files) >= 1 /\ Len(renamed) = Len(files)
             /\ FrameName(Len(files)) \in Names(outdir)

\* C4, amended: the encoder is started at most once; exactly once in a
\* finished run in which the upscaler ran for every image of a non-empty
\* list and succeeded and every rename completed; and only after the last
\* rename, with a frame present.
C4_EncoderOnceWhenAllRenamed ==
    /\ encoderCalls <= 1
    /\ (Terminated /\ files # <<>> /\ Len(upExits) = Len(files) /\ AllZero(upExits)
          /\ Len(renamed) = Len(files))
          => encoderCalls = 1
    /\ encoderCalls >= 1
          => /\ Len(files) >= 1 /\ Len(renamed) = Len(files)
             /\ FrameName(Len(files)) \in Names(outdir)

\* C4: a run over two images has finished with the encoder started once.
C4_Witness ==
    pc = "done" /\ Len(files) = 2 /\ Len(renamed) = 2 /\ encoderCalls = 1

\* C5: a child that exits non-zero, upscaler or encoder, ends the run in
\* error, and the video path is printed only after the encoder exited 0.
C5_ChildFailureIsFatal ==
    /\ (Terminated /\ (~AllZero(upExits) \/ ~AllZero(encExits))) => pc = "error"
    /\ reported => (encExits = <<0>>)

\* C6: with a missing or unreadable input folder the run fails with an
\* OSError before any upscaler or encoder child and before any rename.
C6_UnreadableInputFailsFirst ==
    ~input_ok
        => /\ invoked = <<>> /\ encoderCalls = 0 /\ renamed = <<>> /\ running = {}
           /\ outdir = outdir0
           /\ pc \notin {"start", "enumerating"} => (pc = "error" /\ err = "OSError")

\* C6: the listing of the input folder has failed, the output folder being fine.
C6_Witness ==
    ~input_ok /\ output_ok /\ pc = "error" /\ err = "OSError"

\* C7: right after the rename for image i, frame_<i>.png is a PNG no other
\* PNG of the output folder is newer than; and when every upscaler run left
\* exactly one new PNG, each frame created so far holds the output of the
\* run for its own image, whatever the folder held at the start.
C7_FrameHoldsOwnOutput ==
    /\ (pc \in {"loop", "encode"} /\ Len(renamed) >= 1)
          => \E f \in Newest(outdir) : f.name = FrameName(Len(renamed))
    /\ OneDepositEach
          => \A i \in 1..Len(renamed) : renamed[i].src = renamed[i].idx

\* C8: after k images have been processed, frame_001.png .. frame_k.png all
\* exist, and stay whatever the run does next (stated for the runs in which
\* every upscaler run left exactly one new PNG).
C8_FramesPersist ==
    OneDepositEach => \A k \in 1..Len(renamed) : FrameName(k) \in Names(outdir)

\* C9: at most one child is alive; process_images is past a child only when
\* that child has exited; the upscaler for the next image starts after the
\* rename of the one before; the encoder is alive only when every upscaler
\* run is over and none is to come.
C9_StrictlySequential ==
    /\ Cardinality(running) <= 1
    /\ pc = "waitUpscaler" => running = {<<"upscaler", idx>>}
    /\ pc = "waitEncoder" => running = {<<"encoder", 0>>}
    /\ pc \notin {"waitUpscaler", "waitEncoder"} => running = {}
    /\ pc = "rename" => (Len(upExits) = idx /\ Len(renamed) = idx - 1)
    /\ Len(renamed) <= Len(upExits)
    /\ Len(invoked) <= Len(renamed) + 1
    /\ <<"encoder", 0>> \in running
          => (Len(upExits) = Len(files) /\ Len(invoked) = Len(files))

\* C9: the child for the second image is alive.
C9_Witness ==
    pc = "waitUpscaler" /\ idx = 2 /\ running = {<<"upscaler", 2>>}

C10_State ==
    /\ \A i \in 1..(Len(files) - 1) : StrLess(files[i], files[i + 1])
    /\ pc \in {"loop", "waitUpscaler", "rename", "encode", "waitEncoder"}
          => Range(files) = input_dir \cap AllowedImages
    /\ Len(invoked) <= Len(files)
    /\ \A i \in 1..Len(invoked) : invoked[i] = files[i]
    /\ \A i, j \in 1..Len(invoked) : invoked[i] = invoked[j] => i = j
    /\ Range(invoked) \subseteq input_dir \cap AllowedImages

C10_Step ==
    /\ PhaseRank(pc') >= PhaseRank(pc)
    /\ encoderCalls >= 1 => invoked' = invoked

\* C10: the upscaler is started only on the image files of the input folder
\* (extension png, jpg, jpeg, bmp, tif, tiff in any letter case), at most
\* once each, in strictly ascending file-name order whatever order the
\* listing came in; the phases only move forward, and no upscaler run
\* follows the start of the encoder.
C10_OrderedOnceForward ==
    []C10_State /\ [][C10_Step]_vars

\* C10: three images, an upper-case name first, have all been submitted and
\* the encoder has been started.
C10_Witness ==
    /\ Len(invoked) = 3 /\ encoderCalls = 1
    /\ invoked[1] = <<"B", ".", "P", "N", "G">>

====
